---- MODULE Spec2Model ----
(***************************************************************************)
(* The dialogue managers of Code/src: the plain appointment machine        *)
(* (dm.ts) and the NLU appointment machine (dm4.ts), each an XState        *)
(* machine driven by the events of the speech service (speechstate) and by *)
(* the CLICK of the start button.                                          *)
(*                                                                         *)
(* One step of the model is one macrostep of the actor: the transition     *)
(* selected for the event, the entry actions of the states it enters and   *)
(* every eventless ("always") transition that follows.  A guard or action  *)
(* that throws (a TypeError on lastResult![0].utterance) puts the actor in *)
(* its error status: it keeps its last snapshot and handles nothing more.  *)
(***************************************************************************)
EXTENDS Naturals, Sequences, FiniteSets, TLC

VARIABLES
    variant,      \* "dm" (dm.ts) or "dm4" (dm4.ts): which machine the actor runs
    top,          \* top-level state of the state value
    sub,          \* child state of a compound top-level state, "" otherwise
    lastResult,   \* context.lastResult
    nameResult,   \* context.nameResult
    dayResult,    \* context.dayResult
    timeResult,   \* context.timeResult
    nluIntent,    \* context.nluIntent (dm4.ts)
    nluEntities,  \* context.nluEntities (dm4.ts)
    fault,        \* the actor stopped with an error thrown by a guard or action
    path,         \* the states entered by the last macrostep, in order
    speaks,       \* SPEAK commands sent to spstRef and not yet answered
    listen,       \* the LISTEN command sent to spstRef: "none", "open", "resolved"
    prompted,     \* slots whose Prompt state was entered in the current pass
    rejected      \* the current pass follows a negative answer at AskConfirm

vars == <<variant, top, sub, lastResult, nameResult, dayResult, timeResult,
          nluIntent, nluEntities, fault, path, speaks, listen, prompted, rejected>>

ctxvars == <<lastResult, nameResult, dayResult, timeResult, nluIntent, nluEntities>>

(***************************************************************************)
(* Bounds of the model.                                                    *)
(***************************************************************************)
\* most SPEAK commands outstanding at once (a CLICK at a terminal state adds one)
MaxOutstanding == 2

(***************************************************************************)
(* JavaScript values.                                                      *)
(***************************************************************************)
Null == "<null>"
Undefined == "<undefined>"

\* truthiness of a string | null | undefined
Truthy(v) == v \notin {"", Null, Undefined}

\* a || b
Or(a, b) == IF Truthy(a) THEN a ELSE b

\* the utterances the recogniser delivers in the model
Utterances ==
    {"vlad", "Aya", "xyz", "monday", "Monday", "wednesday", "yes", "No",
     "sure", "nope", "10", "constructor"}

\* the entity texts the NLU service delivers in the model, by category
EntityTexts ==
    [personName |-> {"vlad", "bob"}, apptDay |-> {"monday", "friday"},
     apptTime |-> {"10", "noon"}]

\* String.prototype.toLowerCase on the strings of the model
toLowerCase(s) ==
    CASE s = "Aya" -> "aya"
      [] s = "Monday" -> "monday"
      [] s = "No" -> "no"
      [] s = "Unknown" -> "unknown"
      [] s = "Vladislav Maraev" -> "vladislav maraev"
      [] s = "Nayat Astaiza Soriano" -> "nayat astaiza soriano"
      [] s = "Victoria Daniilidou" -> "victoria daniilidou"
      [] OTHER -> s

(***************************************************************************)
(* The lexicon.                                                            *)
(***************************************************************************)
grammar ==
    ("vlad" :> [person |-> "Vladislav Maraev"]) @@
    ("aya" :> [person |-> "Nayat Astaiza Soriano"]) @@
    ("victoria" :> [person |-> "Victoria Daniilidou"]) @@
    ("monday" :> [day |-> "Monday"]) @@
    ("tuesday" :> [day |-> "Tuesday"]) @@
    ("yes" :> [yesno |-> "Yes"]) @@
    ("no" :> [yesno |-> "No"]) @@
    ("10" :> [time |-> "10:00"]) @@
    ("11" :> [time |-> "11:00"])

validDay == {"monday", "tuesday", "wednesday", "thursday", "friday", "saturday", "sunday"}
yesPhrases == {"yes", "sure", "of course", "absolutely", "indeed", "aye"}
\* mutant: "sure" is also a negation
noPhrases_WithSure == {"no", "nope", "nah", "negative", "nay", "not really", "sure"}

noPhrases == {"no", "nope", "nah", "negative", "nay", "not really"}

\* the lower-case property names every object inherits from Object.prototype:
\* the in operator of isInGrammar finds them as well as the own keys
InheritedKeys == {"constructor", "__proto__"}

isInGrammar(utterance) ==
    \/ toLowerCase(utterance) \in DOMAIN grammar
    \/ toLowerCase(utterance) \in InheritedKeys

getPerson(utterance) ==
    LET k == toLowerCase(utterance)
    IN  IF k \in DOMAIN grammar /\ "person" \in DOMAIN grammar[k]
        THEN grammar[k].person
        ELSE Undefined

validateDay(utterance) == toLowerCase(utterance) \in validDay

isYes(utterance) == toLowerCase(utterance) \in yesPhrases

isNo(utterance) == toLowerCase(utterance) \in noPhrases

(***************************************************************************)
(* Recognition results.  context.lastResult is null, the Hypothesis[] of a *)
(* RECOGNISED event (event.value) or, after AskWhat of dm4.ts, the NLU     *)
(* object of the event (event.nluValue), which has no element 0.           *)
(***************************************************************************)
Confidences == {40, 90}

Hypotheses == [utterance : Utterances, confidence : Confidences]

\* event.value of a RECOGNISED event: the hypotheses of the recogniser, best
\* first; one confident hypothesis, or a doubtful one followed by another
NBest ==
    {<<[utterance |-> "monday", confidence |-> 40], [utterance |-> "xyz", confidence |-> 90]>>,
     <<[utterance |-> "xyz", confidence |-> 40], [utterance |-> "monday", confidence |-> 90]>>,
     <<[utterance |-> "yes", confidence |-> 40], [utterance |-> "No", confidence |-> 90]>>}

RecognitionValues == {<<h>> : h \in {x \in Hypotheses : x.confidence = 90}} \cup NBest

NullResult == [kind |-> "null", hyps |-> <<>>, topIntent |-> "", entities |-> <<>>]

HypsResult(h) == [kind |-> "hyps", hyps |-> h, topIntent |-> "", entities |-> <<>>]

NluResult(v) == [kind |-> "nlu", hyps |-> <<>>, topIntent |-> v.topIntent, entities |-> v.entities]

\* !!context.lastResult
HasResult(r) == r.kind # "null"

\* context.lastResult![0].utterance evaluates without a TypeError
HasUtt0(r) == r.kind = "hyps" /\ Len(r.hyps) > 0

\* context.lastResult![0].utterance
\* mutant: the utterance is read from the last hypothesis
Utt0_LastHypothesis(r) == r.hyps[Len(r.hyps)].utterance

Utt0(r) == r.hyps[1].utterance

(***************************************************************************)
(* A configuration of the actor inside a macrostep: the snapshot, the      *)
(* states entered so far and the commands sent to spstRef so far.          *)
(***************************************************************************)
Cur ==
    [top |-> top, sub |-> sub, lastResult |-> lastResult, nameResult |-> nameResult,
     dayResult |-> dayResult, timeResult |-> timeResult, nluIntent |-> nluIntent,
     nluEntities |-> nluEntities, fault |-> FALSE, handled |-> FALSE,
     path |-> <<>>, out |-> <<>>]

\* the transition enters state t.s
Goto(c, t, s) ==
    [c EXCEPT !.top = t, !.sub = s, !.handled = TRUE, !.path = Append(@, <<t, s>>)]

\* the action spst.speak
Speak(c) == [c EXCEPT !.out = Append(@, "SPEAK")]

\* the actions spst.listen and spst.listenNLU
Listen(c) == [c EXCEPT !.out = Append(@, "LISTEN")]

\* a guard or an action throws: the macrostep is abandoned
Throw(c) == [c EXCEPT !.fault = TRUE, !.handled = TRUE]

(***************************************************************************)
(* dm.ts: the states, each as the effect of entering it.                   *)
(***************************************************************************)
Dm_Greeting(c) == Speak(Goto(c, "Greeting", ""))

Dm_Done(c) == Speak(Goto(c, "Done", ""))

Dm_AskName_PromptForName(c) == Speak(Goto(c, "AskName", "PromptForName"))

Dm_AskName(c) == Dm_AskName_PromptForName(c)

Dm_AskName_NoInput(c) == Speak(Goto(c, "AskName", "NoInput"))

Dm_AskName_Listen(c) == Listen(Goto(c, "AskName", "Listen"))

Dm_AskName_InvalidInput(c) ==
    LET e == Goto(c, "AskName", "InvalidInput")
    IN  IF HasUtt0(e.lastResult) THEN Speak(e) ELSE Throw(e)

\* mutant: ValidInput commits the raw utterance
\* mutant: a lexicon key that names no person is stored as the name
Dm_AskName_ValidInput_FallsBackToUtterance(c) ==
    LET e == Goto(c, "AskName", "ValidInput")
    IN  IF HasUtt0(e.lastResult)
        THEN Speak([e EXCEPT !.nameResult =
                        Or(getPerson(Utt0(e.lastResult)), Utt0(e.lastResult))])
        ELSE Throw(e)

Dm_AskName_ValidInput_RawName(c) ==
    LET e == Goto(c, "AskName", "ValidInput")
    IN  IF HasUtt0(e.lastResult)
        THEN Speak([e EXCEPT !.nameResult = Or(Utt0(e.lastResult), "Unknown")])
        ELSE Throw(e)

Dm_AskName_ValidInput(c) ==
    LET e == Goto(c, "AskName", "ValidInput")
    IN  IF HasUtt0(e.lastResult)
        THEN Speak([e EXCEPT !.nameResult = Or(getPerson(Utt0(e.lastResult)), "Unknown")])
        ELSE Throw(e)

Dm_AskName_ValidateInput(c) ==
    LET e == Goto(c, "AskName", "ValidateInput")
    IN  IF ~HasUtt0(e.lastResult) THEN Throw(e)
        ELSE IF isInGrammar(Utt0(e.lastResult)) THEN Dm_AskName_ValidInput(e)
        ELSE IF ~isInGrammar(Utt0(e.lastResult)) THEN Dm_AskName_InvalidInput(e)
        ELSE e

Dm_AskDay_PromptForDay(c) == Speak(Goto(c, "AskDay", "PromptForDay"))

Dm_AskDay(c) == Dm_AskDay_PromptForDay(c)

Dm_AskDay_NoInput(c) == Speak(Goto(c, "AskDay", "NoInput"))

Dm_AskDay_Listen(c) == Listen(Goto(c, "AskDay", "Listen"))

Dm_AskDay_InvalidDay(c) ==
    LET e == Goto(c, "AskDay", "InvalidDay")
    IN  IF HasUtt0(e.lastResult) THEN Speak(e) ELSE Throw(e)

\* mutant: the apology for a day outside the lexicon forgets the name
Dm_AskDay_InvalidInput_ClearsName(c) ==
    LET e == Goto(c, "AskDay", "InvalidInput")
    IN  IF HasUtt0(e.lastResult) THEN Speak([e EXCEPT !.nameResult = ""]) ELSE Throw(e)

Dm_AskDay_InvalidInput(c) ==
    LET e == Goto(c, "AskDay", "InvalidInput")
    IN  IF HasUtt0(e.lastResult) THEN Speak(e) ELSE Throw(e)

Dm_AskDay_ValidInput(c) ==
    LET e == Goto(c, "AskDay", "ValidInput")
    IN  IF HasUtt0(e.lastResult)
        THEN Speak([e EXCEPT !.dayResult = Or(Utt0(e.lastResult), "Unknown")])
        ELSE Throw(e)

\* mutant: the targets of the two invalid branches swapped
Dm_AskDay_ValidateInput_Swapped(c) ==
    LET e == Goto(c, "AskDay", "ValidateInput")
    IN  IF ~HasUtt0(e.lastResult) THEN Throw(e)
        ELSE IF ~validateDay(Utt0(e.lastResult)) THEN Dm_AskDay_InvalidInput(e)
        ELSE IF validateDay(Utt0(e.lastResult)) /\ isInGrammar(Utt0(e.lastResult))
             THEN Dm_AskDay_ValidInput(e)
        ELSE IF validateDay(Utt0(e.lastResult)) /\ ~isInGrammar(Utt0(e.lastResult))
             THEN Dm_AskDay_InvalidDay(e)
        ELSE e

Dm_AskDay_ValidateInput(c) ==
    LET e == Goto(c, "AskDay", "ValidateInput")
    IN  IF ~HasUtt0(e.lastResult) THEN Throw(e)
        ELSE IF ~validateDay(Utt0(e.lastResult)) THEN Dm_AskDay_InvalidDay(e)
        ELSE IF validateDay(Utt0(e.lastResult)) /\ isInGrammar(Utt0(e.lastResult))
             THEN Dm_AskDay_ValidInput(e)
        ELSE IF validateDay(Utt0(e.lastResult)) /\ ~isInGrammar(Utt0(e.lastResult))
             THEN Dm_AskDay_InvalidInput(e)
        ELSE e

Dm_AskTime_PromptForTime(c) == Speak(Goto(c, "AskTime", "PromptForTime"))

Dm_AskTime(c) == Dm_AskTime_PromptForTime(c)

Dm_AskTime_NoInput(c) == Speak(Goto(c, "AskTime", "NoInput"))

Dm_AskTime_Listen(c) == Listen(Goto(c, "AskTime", "Listen"))

Dm_AskTime_InvalidTime(c) ==
    LET e == Goto(c, "AskTime", "InvalidTime")
    IN  IF HasUtt0(e.lastResult) THEN Speak(e) ELSE Throw(e)

Dm_AskTime_InvalidInput(c) ==
    LET e == Goto(c, "AskTime", "InvalidInput")
    IN  IF HasUtt0(e.lastResult) THEN Speak(e) ELSE Throw(e)

Dm_AskTime_ValidInput(c) ==
    LET e == Goto(c, "AskTime", "ValidInput")
    IN  IF HasUtt0(e.lastResult)
        THEN Speak([e EXCEPT !.timeResult = Or(Utt0(e.lastResult), "Unknown")])
        ELSE Throw(e)

Dm_AskTime_ValidateInput(c) ==
    LET e == Goto(c, "AskTime", "ValidateInput")
    IN  IF ~HasUtt0(e.lastResult) THEN Throw(e)
        ELSE IF isInGrammar(Utt0(e.lastResult)) THEN Dm_AskTime_ValidInput(e)
        ELSE IF ~isInGrammar(Utt0(e.lastResult)) THEN Dm_AskTime_InvalidInput(e)
        ELSE e

Dm_AskFullDay_PromptForYesNo(c) == Speak(Goto(c, "AskFullDay", "PromptForYesNo"))

Dm_AskFullDay(c) == Dm_AskFullDay_PromptForYesNo(c)

Dm_AskFullDay_NoInput(c) == Speak(Goto(c, "AskFullDay", "NoInput"))

Dm_AskFullDay_Listen(c) == Listen(Goto(c, "AskFullDay", "Listen"))

Dm_AskFullDay_InvalidYesNo(c) ==
    LET e == Goto(c, "AskFullDay", "InvalidYesNo")
    IN  IF HasUtt0(e.lastResult) THEN Speak(e) ELSE Throw(e)

Dm_AskFullDay_InvalidInput(c) ==
    LET e == Goto(c, "AskFullDay", "InvalidInput")
    IN  IF HasUtt0(e.lastResult) THEN Speak(e) ELSE Throw(e)

\* mutant: the affirmative answer leaves timeResult as it is
Dm_AskFullDay_WholeDay_KeepsTime(c) == Speak(Goto(c, "AskFullDay", "WholeDay"))

Dm_AskFullDay_WholeDay(c) ==
    Speak([Goto(c, "AskFullDay", "WholeDay") EXCEPT !.timeResult = "whole day"])

\* mutant: an answer that is neither yes nor no is sent to InvalidYesNo
Dm_AskFullDay_ValidateInput_ToInvalidYesNo(c) ==
    LET e == Goto(c, "AskFullDay", "ValidateInput")
    IN  IF ~HasUtt0(e.lastResult) THEN Throw(e)
        ELSE IF isNo(toLowerCase(Utt0(e.lastResult))) THEN Dm_AskTime(e)
        ELSE IF isYes(toLowerCase(Utt0(e.lastResult))) THEN Dm_AskFullDay_WholeDay(e)
        ELSE IF \/ ~isNo(toLowerCase(Utt0(e.lastResult)))
                \/ ~isYes(toLowerCase(Utt0(e.lastResult)))
             THEN Dm_AskFullDay_InvalidYesNo(e)
        ELSE e

Dm_AskFullDay_ValidateInput(c) ==
    LET e == Goto(c, "AskFullDay", "ValidateInput")
    IN  IF ~HasUtt0(e.lastResult) THEN Throw(e)
        ELSE IF isNo(toLowerCase(Utt0(e.lastResult))) THEN Dm_AskTime(e)
        ELSE IF isYes(toLowerCase(Utt0(e.lastResult))) THEN Dm_AskFullDay_WholeDay(e)
        ELSE IF \/ ~isNo(toLowerCase(Utt0(e.lastResult)))
                \/ ~isYes(toLowerCase(Utt0(e.lastResult)))
             THEN Dm_AskFullDay_InvalidInput(e)
        ELSE e

Dm_AskConfirm_PromptForYesNo(c) == Speak(Goto(c, "AskConfirm", "PromptForYesNo"))

Dm_AskConfirm(c) == Dm_AskConfirm_PromptForYesNo(c)

Dm_AskConfirm_NoInput(c) == Speak(Goto(c, "AskConfirm", "NoInput"))

Dm_AskConfirm_Listen(c) == Listen(Goto(c, "AskConfirm", "Listen"))

Dm_AskConfirm_InvalidYesNo(c) ==
    LET e == Goto(c, "AskConfirm", "InvalidYesNo")
    IN  IF HasUtt0(e.lastResult) THEN Speak(e) ELSE Throw(e)

Dm_AskConfirm_InvalidInput(c) ==
    LET e == Goto(c, "AskConfirm", "InvalidInput")
    IN  IF HasUtt0(e.lastResult) THEN Speak(e) ELSE Throw(e)

Dm_AskConfirm_WholeDay(c) ==
    Speak([Goto(c, "AskConfirm", "WholeDay") EXCEPT !.timeResult = "whole day"])

\* mutant: an answer that is neither yes nor no counts as no
Dm_AskConfirm_ValidateInput_DefaultsToNo(c) ==
    LET e == Goto(c, "AskConfirm", "ValidateInput")
    IN  IF ~HasUtt0(e.lastResult) THEN Throw(e)
        ELSE IF isYes(toLowerCase(Utt0(e.lastResult))) THEN Dm_Done(e)
        ELSE Dm_AskName(e)

Dm_AskConfirm_ValidateInput(c) ==
    LET e == Goto(c, "AskConfirm", "ValidateInput")
    IN  IF ~HasUtt0(e.lastResult) THEN Throw(e)
        ELSE IF isNo(toLowerCase(Utt0(e.lastResult))) THEN Dm_AskName(e)
        ELSE IF isYes(toLowerCase(Utt0(e.lastResult))) THEN Dm_Done(e)
        ELSE IF \/ ~isNo(toLowerCase(Utt0(e.lastResult)))
                \/ ~isYes(toLowerCase(Utt0(e.lastResult)))
             THEN Dm_AskConfirm_InvalidInput(e)
        ELSE e

(***************************************************************************)
(* dm.ts: the transition taken for each event.  An event no state handles  *)
(* leaves the configuration as it is.                                      *)
(***************************************************************************)
DmSlots == {"AskName", "AskDay", "AskFullDay", "AskTime", "AskConfirm"}

\* mutant: ASRTTS_READY is handled in every state
Dm_ASRTTS_READY_Anywhere(c) == Goto(c, "WaitToStart", "")

Dm_ASRTTS_READY(c) ==
    IF c.top = "Prepare" THEN Goto(c, "WaitToStart", "") ELSE c

\* mutant: CLICK restarts the dialogue from any state
Dm_CLICK_Anywhere(c) == Dm_Greeting(c)

Dm_CLICK(c) ==
    IF c.top \in {"WaitToStart", "Done"} THEN Dm_Greeting(c) ELSE c

Dm_SPEAK_COMPLETE(c) ==
    CASE c.top = "Greeting" -> Dm_AskName(c)
      [] c.top = "AskName" /\ c.sub = "PromptForName" -> Dm_AskName_Listen(c)
      [] c.top = "AskName" /\ c.sub \in {"NoInput", "InvalidInput"} ->
            Dm_AskName_PromptForName(c)
      [] c.top = "AskName" /\ c.sub = "ValidInput" ->
            IF c.nameResult = "Unknown" THEN Dm_AskName(c)
            ELSE IF c.nameResult # "Unknown" THEN Dm_AskDay(c)
            ELSE c
      [] c.top = "AskDay" /\ c.sub = "PromptForDay" -> Dm_AskDay_Listen(c)
      [] c.top = "AskDay" /\ c.sub \in {"NoInput", "InvalidDay", "InvalidInput"} ->
            Dm_AskDay_PromptForDay(c)
      [] c.top = "AskDay" /\ c.sub = "ValidInput" -> Dm_AskFullDay(c)
      [] c.top = "AskFullDay" /\ c.sub = "PromptForYesNo" -> Dm_AskFullDay_Listen(c)
      [] c.top = "AskFullDay" /\ c.sub \in {"NoInput", "InvalidYesNo", "InvalidInput"} ->
            Dm_AskFullDay_PromptForYesNo(c)
      [] c.top = "AskFullDay" /\ c.sub = "WholeDay" -> Dm_AskConfirm(c)
      [] c.top = "AskTime" /\ c.sub = "PromptForTime" -> Dm_AskTime_Listen(c)
      [] c.top = "AskTime" /\ c.sub \in {"NoInput", "InvalidTime", "InvalidInput"} ->
            Dm_AskTime_PromptForTime(c)
      [] c.top = "AskTime" /\ c.sub = "ValidInput" -> Dm_AskConfirm(c)
      [] c.top = "AskConfirm" /\ c.sub = "PromptForYesNo" -> Dm_AskConfirm_Listen(c)
      [] c.top = "AskConfirm" /\ c.sub \in {"NoInput", "InvalidYesNo", "InvalidInput"} ->
            Dm_AskConfirm_PromptForYesNo(c)
      [] c.top = "AskConfirm" /\ c.sub = "WholeDay" -> Dm_Done(c)
      [] OTHER -> c

Dm_RECOGNISED(c, event) ==
    IF c.top \in DmSlots /\ c.sub = "Listen"
    THEN [c EXCEPT !.lastResult = HypsResult(event.value), !.handled = TRUE]
    ELSE c

Dm_ASR_NOINPUT(c) ==
    IF c.top \in DmSlots /\ c.sub = "Listen"
    THEN [c EXCEPT !.lastResult = NullResult, !.handled = TRUE]
    ELSE c

Dm_LISTEN_COMPLETE(c) ==
    CASE c.top = "AskName" ->
            IF HasResult(c.lastResult) THEN Dm_AskName_ValidateInput(c)
            ELSE Dm_AskName_NoInput(c)
      [] c.top = "AskDay" ->
            IF HasResult(c.lastResult) THEN Dm_AskDay_ValidateInput(c)
            ELSE Dm_AskDay_NoInput(c)
      [] c.top = "AskFullDay" ->
            IF HasResult(c.lastResult) THEN Dm_AskFullDay_ValidateInput(c)
            ELSE Dm_AskFullDay_NoInput(c)
      [] c.top = "AskTime" ->
            IF HasResult(c.lastResult) THEN Dm_AskTime_ValidateInput(c)
            ELSE Dm_AskTime_NoInput(c)
      [] c.top = "AskConfirm" ->
            IF HasResult(c.lastResult) THEN Dm_AskConfirm_ValidateInput(c)
            ELSE Dm_AskConfirm_NoInput(c)
      [] OTHER -> c

(***************************************************************************)
(* dm4.ts: NLU results and the entity loop of AskWhat.Listen.              *)
(***************************************************************************)
Intents == {"CreateMeeting", "WhoIs", "None", "Cancel"}

Categories == {"personName", "apptDay", "apptTime"}

Entities == UNION {[category : {k}, text : EntityTexts[k]] : k \in Categories}

\* the entity lists of the model, in any order: those that name each category
\* at most once, and those that name two persons
EntityLists ==
    LET lists == UNION {[1..n -> Entities] : n \in 0..Cardinality(Categories)}
        once(l) == \A i, j \in DOMAIN l : i # j => l[i].category # l[j].category
        persons(l) == Len(l) = 2 /\ l[1] # l[2] /\ \A i \in DOMAIN l : l[i].category = "personName"
    IN  {l \in lists : once(l) \/ persons(l)}

NluValues == [topIntent : Intents, entities : EntityLists]

NullEntities == [isNull |-> TRUE, items |-> <<>>]

SomeEntities(l) == [isNull |-> FALSE, items |-> l]

\* the value the loop over entities leaves in updates for a category (the
\* last entity of the category wins), or old when the list has none
LastEntity(entities, category, old) ==
    LET idx == {i \in DOMAIN entities : entities[i].category = category}
    IN  IF idx = {} THEN old
        ELSE entities[CHOOSE i \in idx : \A j \in idx : j <= i].text

(***************************************************************************)
(* dm4.ts: the states, each as the effect of entering it.                  *)
(***************************************************************************)
Dm4_Reset(c) ==
    [c EXCEPT !.lastResult = NullResult, !.nameResult = "", !.dayResult = "",
              !.timeResult = "", !.nluIntent = "", !.nluEntities = NullEntities]

Dm4_Greeting(c) == Speak(Goto(c, "Greeting", ""))

\* mutant: Done without its entry assign
Dm4_Done_NoReset(c) == Speak(Goto(c, "Done", ""))

Dm4_Done(c) == Speak(Dm4_Reset(Goto(c, "Done", "")))

\* mutant: DoneMeeting without its entry assign
Dm4_DoneMeeting_NoReset(c) == Speak(Goto(c, "DoneMeeting", ""))

Dm4_DoneMeeting(c) == Speak(Dm4_Reset(Goto(c, "DoneMeeting", "")))

Dm4_WhoIs(c) == Speak(Goto(c, "WhoIs", ""))

Dm4_AskWhat_PromptForWhat(c) == Speak(Goto(c, "AskWhat", "PromptForWhat"))

Dm4_AskWhat(c) == Dm4_AskWhat_PromptForWhat(c)

Dm4_AskWhat_NoInput(c) == Speak(Goto(c, "AskWhat", "NoInput"))

Dm4_AskWhat_Listen(c) == [Goto(c, "AskWhat", "Listen") EXCEPT !.out = Append(@, "LISTEN_NLU")]

Dm4_AskWhat_InvalidInput(c) == Speak(Goto(c, "AskWhat", "InvalidInput"))

Dm4_AskWhat_ValidInput(c) == Speak(Goto(c, "AskWhat", "ValidInput"))

Dm4_AskWhat_ValidateInput(c) ==
    LET e == Goto(c, "AskWhat", "ValidateInput")
    IN  IF e.nluIntent # "None" THEN Dm4_AskWhat_ValidInput(e)
        ELSE IF e.nluIntent = "None" THEN Dm4_AskWhat_InvalidInput(e)
        ELSE e

Dm4_AskName_PromptForName(c) == Speak(Goto(c, "AskName", "PromptForName"))

Dm4_AskName_NoInput(c) == Speak(Goto(c, "AskName", "NoInput"))

Dm4_AskName_Listen(c) == Listen(Goto(c, "AskName", "Listen"))

Dm4_AskName_InvalidInput(c) == Speak(Goto(c, "AskName", "InvalidInput"))

Dm4_AskName_ValidInput(c) == Speak(Goto(c, "AskName", "ValidInput"))

\* mutant: an unresolved name falls back to the utterance, not to "Unknown"
Dm4_AskName_ValidateInput_KeepsUtterance(c) ==
    LET e == Goto(c, "AskName", "ValidateInput")
        fromSlot == getPerson(e.nameResult)
    IN  IF ~Truthy(fromSlot) /\ ~HasUtt0(e.lastResult) THEN Throw(e)
        ELSE LET person == Or(fromSlot, getPerson(Utt0(e.lastResult)))
                 f == [e EXCEPT !.nameResult = Or(person, Utt0(e.lastResult))]
             IN  IF f.nameResult # "Unknown" THEN Dm4_AskName_ValidInput(f)
                 ELSE IF f.nameResult = "Unknown" THEN Dm4_AskName_InvalidInput(f)
                 ELSE f

Dm4_AskName_ValidateInput(c) ==
    LET e == Goto(c, "AskName", "ValidateInput")
        fromSlot == getPerson(e.nameResult)
    IN  IF ~Truthy(fromSlot) /\ ~HasUtt0(e.lastResult) THEN Throw(e)
        ELSE LET person == Or(fromSlot, getPerson(Utt0(e.lastResult)))
                 f == [e EXCEPT !.nameResult = Or(person, "Unknown")]
             IN  IF f.nameResult # "Unknown" THEN Dm4_AskName_ValidInput(f)
                 ELSE IF f.nameResult = "Unknown" THEN Dm4_AskName_InvalidInput(f)
                 ELSE f

\* mutant: CheckForName always prompts
Dm4_AskName_CheckForName_AlwaysPrompts(c) ==
    Dm4_AskName_PromptForName(Goto(c, "AskName", "CheckForName"))

Dm4_AskName_CheckForName(c) ==
    LET e == Goto(c, "AskName", "CheckForName")
    IN  IF e.nameResult # "" THEN Dm4_AskName_ValidateInput(e)
        ELSE Dm4_AskName_PromptForName(e)

Dm4_AskName(c) == Dm4_AskName_CheckForName(c)

Dm4_AskConfirm_PromptForYesNo(c) == Speak(Goto(c, "AskConfirm", "PromptForYesNo"))

Dm4_AskConfirm(c) == Dm4_AskConfirm_PromptForYesNo(c)

Dm4_AskConfirm_NoInput(c) == Speak(Goto(c, "AskConfirm", "NoInput"))

Dm4_AskConfirm_Listen(c) == Listen(Goto(c, "AskConfirm", "Listen"))

Dm4_AskConfirm_InvalidYesNo(c) ==
    LET e == Goto(c, "AskConfirm", "InvalidYesNo")
    IN  IF HasUtt0(e.lastResult) THEN Speak(e) ELSE Throw(e)

Dm4_AskConfirm_InvalidInput(c) ==
    LET e == Goto(c, "AskConfirm", "InvalidInput")
    IN  IF HasUtt0(e.lastResult) THEN Speak(e) ELSE Throw(e)

Dm4_AskConfirm_WholeDay(c) ==
    Speak([Goto(c, "AskConfirm", "WholeDay") EXCEPT !.timeResult = "whole day"])

Dm4_AskConfirm_ValidateInput(c) ==
    LET e == Goto(c, "AskConfirm", "ValidateInput")
    IN  IF ~HasUtt0(e.lastResult) THEN Throw(e)
        ELSE IF isNo(toLowerCase(Utt0(e.lastResult))) THEN Dm4_AskName(e)
        ELSE IF isYes(toLowerCase(Utt0(e.lastResult))) THEN Dm4_DoneMeeting(e)
        ELSE IF \/ ~isNo(toLowerCase(Utt0(e.lastResult)))
                \/ ~isYes(toLowerCase(Utt0(e.lastResult)))
             THEN Dm4_AskConfirm_InvalidInput(e)
        ELSE e

Dm4_AskTime_PromptForTime(c) == Speak(Goto(c, "AskTime", "PromptForTime"))

Dm4_AskTime_NoInput(c) == Speak(Goto(c, "AskTime", "NoInput"))

Dm4_AskTime_Listen(c) == Listen(Goto(c, "AskTime", "Listen"))

Dm4_AskTime_InvalidTime(c) ==
    LET e == Goto(c, "AskTime", "InvalidTime")
    IN  IF HasUtt0(e.lastResult) THEN Speak(e) ELSE Throw(e)

Dm4_AskTime_InvalidInput(c) ==
    LET e == Goto(c, "AskTime", "InvalidInput")
    IN  IF HasUtt0(e.lastResult) THEN Speak(e) ELSE Throw(e)

Dm4_AskTime_ValidInput(c) ==
    LET e == Goto(c, "AskTime", "ValidInput")
    IN  IF Truthy(e.timeResult) THEN Speak(e)
        ELSE IF HasUtt0(e.lastResult)
             THEN Speak([e EXCEPT !.timeResult = Or(Utt0(e.lastResult), "Unknown")])
        ELSE Throw(e)

Dm4_AskTime_ValidateInput(c) ==
    LET e == Goto(c, "AskTime", "ValidateInput")
    IN  IF isInGrammar(e.timeResult) THEN Dm4_AskTime_ValidInput(e)
        ELSE IF ~HasUtt0(e.lastResult) THEN Throw(e)
        ELSE IF isInGrammar(Utt0(e.lastResult)) THEN Dm4_AskTime_ValidInput(e)
        ELSE IF ~isInGrammar(e.timeResult) \/ ~isInGrammar(Utt0(e.lastResult))
             THEN Dm4_AskTime_InvalidInput(e)
        ELSE e

Dm4_AskTime_CheckForTime(c) ==
    LET e == Goto(c, "AskTime", "CheckForTime")
    IN  IF e.timeResult # "" THEN Dm4_AskTime_ValidateInput(e)
        ELSE Dm4_AskTime_PromptForTime(e)

Dm4_AskTime(c) == Dm4_AskTime_CheckForTime(c)

Dm4_AskFullDay_PromptForYesNo(c) == Speak(Goto(c, "AskFullDay", "PromptForYesNo"))

Dm4_AskFullDay_NoInput(c) == Speak(Goto(c, "AskFullDay", "NoInput"))

Dm4_AskFullDay_Listen(c) == Listen(Goto(c, "AskFullDay", "Listen"))

Dm4_AskFullDay_InvalidYesNo(c) ==
    LET e == Goto(c, "AskFullDay", "InvalidYesNo")
    IN  IF HasUtt0(e.lastResult) THEN Speak(e) ELSE Throw(e)

Dm4_AskFullDay_InvalidInput(c) ==
    LET e == Goto(c, "AskFullDay", "InvalidInput")
    IN  IF HasUtt0(e.lastResult) THEN Speak(e) ELSE Throw(e)

Dm4_AskFullDay_WholeDay(c) ==
    Speak([Goto(c, "AskFullDay", "WholeDay") EXCEPT !.timeResult = "whole day"])

Dm4_AskFullDay_ValidateInput(c) ==
    LET e == Goto(c, "AskFullDay", "ValidateInput")
    IN  IF ~HasUtt0(e.lastResult) THEN Throw(e)
        ELSE IF isNo(toLowerCase(Utt0(e.lastResult))) THEN Dm4_AskTime(e)
        ELSE IF isYes(toLowerCase(Utt0(e.lastResult))) THEN Dm4_AskFullDay_WholeDay(e)
        ELSE IF \/ ~isNo(toLowerCase(Utt0(e.lastResult)))
                \/ ~isYes(toLowerCase(Utt0(e.lastResult)))
             THEN Dm4_AskFullDay_InvalidInput(e)
        ELSE e

Dm4_AskFullDay_CheckForTime(c) ==
    LET e == Goto(c, "AskFullDay", "CheckForTime")
    IN  IF e.timeResult # "" THEN Dm4_AskTime(e)
        ELSE Dm4_AskFullDay_PromptForYesNo(e)

Dm4_AskFullDay(c) == Dm4_AskFullDay_CheckForTime(c)

Dm4_AskDay_PromptForDay(c) == Speak(Goto(c, "AskDay", "PromptForDay"))

Dm4_AskDay_NoInput(c) == Speak(Goto(c, "AskDay", "NoInput"))

Dm4_AskDay_Listen(c) == Listen(Goto(c, "AskDay", "Listen"))

Dm4_AskDay_InvalidDay(c) ==
    LET e == Goto(c, "AskDay", "InvalidDay")
    IN  IF HasUtt0(e.lastResult) THEN Speak(e) ELSE Throw(e)

Dm4_AskDay_InvalidInput(c) ==
    LET e == Goto(c, "AskDay", "InvalidInput")
    IN  IF HasUtt0(e.lastResult) THEN Speak(e) ELSE Throw(e)

Dm4_AskDay_ValidInput(c) ==
    LET e == Goto(c, "AskDay", "ValidInput")
    IN  IF HasUtt0(e.lastResult)
        THEN Speak([e EXCEPT !.dayResult = Or(Utt0(e.lastResult), "Unknown")])
        ELSE Throw(e)

Dm4_AskDay_ValidateInput(c) ==
    LET e == Goto(c, "AskDay", "ValidateInput")
    IN  IF ~HasUtt0(e.lastResult) THEN Throw(e)
        ELSE IF ~validateDay(Utt0(e.lastResult)) THEN Dm4_AskDay_InvalidDay(e)
        ELSE IF validateDay(Utt0(e.lastResult)) /\ isInGrammar(Utt0(e.lastResult))
             THEN Dm4_AskDay_ValidInput(e)
        ELSE IF validateDay(Utt0(e.lastResult)) /\ ~isInGrammar(Utt0(e.lastResult))
             THEN Dm4_AskDay_InvalidInput(e)
        ELSE e

\* mutant: a pre-filled day skips to the confirmation
Dm4_AskDay_CheckForDay_SkipsToConfirm(c) ==
    LET e == Goto(c, "AskDay", "CheckForDay")
    IN  IF e.dayResult # "" THEN Dm4_AskConfirm(e)
        ELSE Dm4_AskDay_PromptForDay(e)

Dm4_AskDay_CheckForDay(c) ==
    LET e == Goto(c, "AskDay", "CheckForDay")
    IN  IF e.dayResult # "" THEN Dm4_AskFullDay(e)
        ELSE Dm4_AskDay_PromptForDay(e)

Dm4_AskDay(c) == Dm4_AskDay_CheckForDay(c)

(***************************************************************************)
(* dm4.ts: the transition taken for each event.                            *)
(***************************************************************************)
Dm4Slots == {"AskWhat", "AskName", "AskDay", "AskFullDay", "AskTime", "AskConfirm"}

Dm4_ASRTTS_READY(c) ==
    IF c.top = "Prepare" THEN Goto(c, "WaitToStart", "") ELSE c

Dm4_CLICK(c) ==
    IF c.top \in {"WaitToStart", "Done", "DoneMeeting"} THEN Dm4_Greeting(c) ELSE c

Dm4_SPEAK_COMPLETE(c) ==
    CASE c.top = "Greeting" -> Dm4_AskWhat(c)
      [] c.top = "AskWhat" /\ c.sub = "PromptForWhat" -> Dm4_AskWhat_Listen(c)
      [] c.top = "AskWhat" /\ c.sub \in {"NoInput", "InvalidInput"} ->
            Dm4_AskWhat_PromptForWhat(c)
      [] c.top = "AskWhat" /\ c.sub = "ValidInput" ->
            IF c.nluIntent = "CreateMeeting" THEN Dm4_AskName(c)
            ELSE IF c.nluIntent = "WhoIs" THEN Dm4_WhoIs(c)
            ELSE c
      [] c.top = "WhoIs" -> Dm4_Done(c)
      [] c.top = "AskName" /\ c.sub = "PromptForName" -> Dm4_AskName_Listen(c)
      [] c.top = "AskName" /\ c.sub \in {"NoInput", "InvalidInput"} ->
            Dm4_AskName_PromptForName(c)
      [] c.top = "AskName" /\ c.sub = "ValidInput" ->
            IF c.nameResult = "Unknown" THEN Dm4_AskName(c)
            ELSE IF c.nameResult # "Unknown" THEN Dm4_AskDay(c)
            ELSE c
      [] c.top = "AskDay" /\ c.sub = "PromptForDay" -> Dm4_AskDay_Listen(c)
      [] c.top = "AskDay" /\ c.sub \in {"NoInput", "InvalidDay", "InvalidInput"} ->
            Dm4_AskDay_PromptForDay(c)
      [] c.top = "AskDay" /\ c.sub = "ValidInput" -> Dm4_AskFullDay(c)
      [] c.top = "AskFullDay" /\ c.sub = "PromptForYesNo" -> Dm4_AskFullDay_Listen(c)
      [] c.top = "AskFullDay" /\ c.sub \in {"NoInput", "InvalidYesNo", "InvalidInput"} ->
            Dm4_AskFullDay_PromptForYesNo(c)
      [] c.top = "AskFullDay" /\ c.sub = "WholeDay" -> Dm4_AskConfirm(c)
      [] c.top = "AskTime" /\ c.sub = "PromptForTime" -> Dm4_AskTime_Listen(c)
      [] c.top = "AskTime" /\ c.sub \in {"NoInput", "InvalidTime", "InvalidInput"} ->
            Dm4_AskTime_PromptForTime(c)
      [] c.top = "AskTime" /\ c.sub = "ValidInput" -> Dm4_AskConfirm(c)
      [] c.top = "AskConfirm" /\ c.sub = "PromptForYesNo" -> Dm4_AskConfirm_Listen(c)
      [] c.top = "AskConfirm" /\ c.sub \in {"NoInput", "InvalidYesNo", "InvalidInput"} ->
            Dm4_AskConfirm_PromptForYesNo(c)
      [] c.top = "AskConfirm" /\ c.sub = "WholeDay" -> Dm4_DoneMeeting(c)
      [] OTHER -> c

\* AskWhat.Listen reads event.nluValue; every other Listen stores event.value
Dm4_RECOGNISED(c, event) ==
    CASE c.top = "AskWhat" /\ c.sub = "Listen" ->
            IF ~event.hasNlu THEN Throw(c)
            ELSE LET entities == event.nluValue.entities
                 IN  [c EXCEPT
                        !.nameResult = LastEntity(entities, "personName", @),
                        !.timeResult = LastEntity(entities, "apptTime", @),
                        !.dayResult = LastEntity(entities, "apptDay", @),
                        !.lastResult = NluResult(event.nluValue),
                        !.nluIntent = event.nluValue.topIntent,
                        !.nluEntities = SomeEntities(entities),
                        !.handled = TRUE]
      [] c.top \in Dm4Slots \ {"AskWhat"} /\ c.sub = "Listen" ->
            [c EXCEPT !.lastResult = HypsResult(event.value), !.handled = TRUE]
      [] OTHER -> c

Dm4_ASR_NOINPUT(c) ==
    IF c.top \in Dm4Slots /\ c.sub = "Listen"
    THEN [c EXCEPT !.lastResult = NullResult, !.handled = TRUE]
    ELSE c

\* the guard of a slot's LISTEN_COMPLETE: !!slot || !!lastResult![0].utterance
Dm4_SlotOrUtterance(c, slot, valid, noInput) ==
    IF Truthy(slot) THEN valid
    ELSE IF ~HasUtt0(c.lastResult) THEN Throw(c)
    ELSE IF Truthy(Utt0(c.lastResult)) THEN valid
    ELSE noInput

Dm4_LISTEN_COMPLETE(c) ==
    CASE c.top = "AskWhat" ->
            IF HasResult(c.lastResult) THEN Dm4_AskWhat_ValidateInput(c)
            ELSE Dm4_AskWhat_NoInput(c)
      [] c.top = "AskName" ->
            Dm4_SlotOrUtterance(c, c.nameResult, Dm4_AskName_ValidateInput(c),
                                Dm4_AskName_NoInput(c))
      [] c.top = "AskDay" ->
            Dm4_SlotOrUtterance(c, c.dayResult, Dm4_AskDay_ValidateInput(c),
                                Dm4_AskDay_NoInput(c))
      [] c.top = "AskFullDay" ->
            Dm4_SlotOrUtterance(c, c.timeResult, Dm4_AskFullDay_ValidateInput(c),
                                Dm4_AskFullDay_NoInput(c))
      [] c.top = "AskTime" ->
            Dm4_SlotOrUtterance(c, c.timeResult, Dm4_AskTime_ValidateInput(c),
                                Dm4_AskTime_NoInput(c))
      [] c.top = "AskConfirm" ->
            IF HasResult(c.lastResult) THEN Dm4_AskConfirm_ValidateInput(c)
            ELSE Dm4_AskConfirm_NoInput(c)
      [] OTHER -> c

(***************************************************************************)
(* The actor and the speech service.  The service answers PREPARE with     *)
(* ASRTTS_READY, each SPEAK with one SPEAK_COMPLETE and each LISTEN with   *)
(* RECOGNISED or ASR_NOINPUT and then LISTEN_COMPLETE; a LISTEN sent with  *)
(* nlu: true is answered with an event that carries nluValue.  The button  *)
(* sends CLICK at any time.  ASRTTS_READY may be delivered again in any    *)
(* state, where no state handles it.                                       *)
(***************************************************************************)
PromptStates ==
    {"PromptForWhat", "PromptForName", "PromptForDay", "PromptForYesNo", "PromptForTime"}

TerminalStates == {"Done", "DoneMeeting"}

AsrEvents ==
    {[value |-> v, hasNlu |-> FALSE, nluValue |-> [topIntent |-> "", entities |-> <<>>]] :
        v \in RecognitionValues}

NluEvents == {[value |-> <<>>, hasNlu |-> TRUE, nluValue |-> v] : v \in NluValues}

\* the states a macrostep entered
Entered(r) == {r.path[i] : i \in DOMAIN r.path}

\* the macrostep r becomes the snapshot; spk and lst are what the service
\* still owes once the event is consumed
Commit(r, spk, lst) ==
    LET sent(cmd) == Cardinality({i \in DOMAIN r.out : r.out[i] = cmd})
        restart == top = "AskConfirm" /\ \E st \in Entered(r) : st[1] = "AskName"
        fresh == \E st \in Entered(r) : st[1] \in TerminalStates \cup {"Greeting"}
        asked == {st[1] : st \in {x \in Entered(r) : x[2] \in PromptStates}}
    IN  IF ~r.handled
        THEN /\ speaks' = spk
             /\ listen' = lst
             /\ UNCHANGED <<top, sub, ctxvars, fault, path, prompted, rejected>>
        ELSE IF r.fault
        THEN /\ fault' = TRUE
             /\ path' = r.path
             /\ speaks' = spk
             /\ listen' = lst
             /\ UNCHANGED <<top, sub, ctxvars, prompted, rejected>>
        ELSE /\ spk + sent("SPEAK") <= MaxOutstanding
             /\ top' = r.top
             /\ sub' = r.sub
             /\ lastResult' = r.lastResult
             /\ nameResult' = r.nameResult
             /\ dayResult' = r.dayResult
             /\ timeResult' = r.timeResult
             /\ nluIntent' = r.nluIntent
             /\ nluEntities' = r.nluEntities
             /\ fault' = FALSE
             /\ path' = r.path
             /\ speaks' = spk + sent("SPEAK")
             /\ listen' = IF sent("LISTEN") > 0 THEN "open"
                          ELSE IF sent("LISTEN_NLU") > 0 THEN "openNLU"
                          ELSE lst
             /\ prompted' = (IF restart \/ fresh THEN {} ELSE prompted) \cup asked
             /\ rejected' = IF restart THEN TRUE ELSE IF fresh THEN FALSE ELSE rejected

Init ==
    /\ variant \in {"dm", "dm4"}
    /\ top = "Prepare"
    /\ sub = ""
    /\ lastResult = NullResult
    /\ nameResult = IF variant = "dm" THEN Null ELSE ""
    /\ dayResult = IF variant = "dm" THEN Null ELSE ""
    /\ timeResult = IF variant = "dm" THEN Null ELSE ""
    /\ nluIntent = ""
    /\ nluEntities = NullEntities
    /\ fault = FALSE
    /\ path = <<>>
    /\ speaks = 0
    /\ listen = "none"
    /\ prompted = {}
    /\ rejected = FALSE

ASRTTS_READY ==
    /\ ~fault
    /\ Commit(IF variant = "dm" THEN Dm_ASRTTS_READY(Cur) ELSE Dm4_ASRTTS_READY(Cur),
              speaks, listen)
    /\ UNCHANGED variant

CLICK ==
    /\ ~fault
    /\ Commit(IF variant = "dm" THEN Dm_CLICK(Cur) ELSE Dm4_CLICK(Cur), speaks, listen)
    /\ UNCHANGED variant

SPEAK_COMPLETE ==
    /\ ~fault
    /\ speaks > 0
    /\ Commit(IF variant = "dm" THEN Dm_SPEAK_COMPLETE(Cur) ELSE Dm4_SPEAK_COMPLETE(Cur),
              speaks - 1, listen)
    /\ UNCHANGED variant

RECOGNISED ==
    /\ ~fault
    /\ listen \in {"open", "openNLU"}
    /\ \E event \in (IF listen = "openNLU" THEN NluEvents ELSE AsrEvents) :
          Commit(IF variant = "dm" THEN Dm_RECOGNISED(Cur, event)
                 ELSE Dm4_RECOGNISED(Cur, event),
                 speaks, "resolved")
    /\ UNCHANGED variant

ASR_NOINPUT ==
    /\ ~fault
    /\ listen \in {"open", "openNLU"}
    /\ Commit(IF variant = "dm" THEN Dm_ASR_NOINPUT(Cur) ELSE Dm4_ASR_NOINPUT(Cur),
              speaks, "resolved")
    /\ UNCHANGED variant

LISTEN_COMPLETE ==
    /\ ~fault
    /\ listen = "resolved"
    /\ Commit(IF variant = "dm" THEN Dm_LISTEN_COMPLETE(Cur) ELSE Dm4_LISTEN_COMPLETE(Cur),
              speaks, "none")
    /\ UNCHANGED variant

Next ==
    \/ ASRTTS_READY
    \/ CLICK
    \/ SPEAK_COMPLETE
    \/ RECOGNISED
    \/ ASR_NOINPUT
    \/ LISTEN_COMPLETE

Spec == Init /\ [][Next]_vars

(***************************************************************************)
(* Vocabulary of the properties.                                           *)
(***************************************************************************)
\* the unset value of a slot: null in dm.ts, the empty string in dm4.ts
Unset == IF variant = "dm" THEN Null ELSE ""

SlotsUnset == nameResult = Unset /\ dayResult = Unset /\ timeResult = Unset

PersonNames == {grammar[k].person : k \in {x \in DOMAIN grammar : "person" \in DOMAIN grammar[x]}}

\* the last macrostep went through state t.s
Passed(t, s) == \E i \in DOMAIN path : path[i] = <<t, s>>

\* the slot is in Listen and the recogniser has delivered u for it
Heard(t, u) ==
    /\ top = t
    /\ sub = "Listen"
    /\ listen = "resolved"
    /\ HasUtt0(lastResult)
    /\ Utt0(lastResult) = u

\* the slot is in Listen and the recogniser has reported no input
HeardNothing(t) ==
    /\ top = t
    /\ sub = "Listen"
    /\ listen = "resolved"
    /\ lastResult = NullResult

(***************************************************************************)
(* C1.  dm.ts: whenever the machine is in Greeting, lastResult,            *)
(* nameResult, dayResult and timeResult all hold null, also in the         *)
(* Greeting that follows Done and a CLICK.                                 *)
(***************************************************************************)
C1_GreetingSeesResetContext ==
    (variant = "dm" /\ top = "Greeting") => (lastResult = NullResult /\ SlotsUnset)

(***************************************************************************)
(* C2.  dm4.ts: in Done, in DoneMeeting and in every Greeting the context  *)
(* is the initial one: lastResult null, the three slots and nluIntent      *)
(* empty, nluEntities null.                                                *)
(***************************************************************************)
C2_TerminalResetsContext ==
    (variant = "dm4" /\ top \in TerminalStates \cup {"Greeting"}) =>
        /\ lastResult = NullResult
        /\ SlotsUnset
        /\ nluIntent = ""
        /\ nluEntities = NullEntities

\* DoneMeeting entered from a confirmed booking, and Done from WhoIs
C2_Witness ==
    /\ variant = "dm4"
    /\ top = "DoneMeeting"
    /\ path = <<<<"AskConfirm", "ValidateInput">>, <<"DoneMeeting", "">>>>

(***************************************************************************)
(* C3.  Both machines: when a negative answer at AskConfirm has taken the  *)
(* machine to AskName, the person, day and time slots are unset.           *)
(***************************************************************************)
C3_RejectClearsSlots ==
    (top = "AskName" /\ path # <<>> /\ path[1] = <<"AskConfirm", "ValidateInput">>) =>
        SlotsUnset

(***************************************************************************)
(* C4.  Both machines: when AskConfirm is reached again after a negative   *)
(* answer, the person, day and whole-day prompts have all been spoken in   *)
(* the new pass.                                                           *)
(***************************************************************************)
C4_RejectedPassAsksAgain ==
    (top = "AskConfirm" /\ rejected) => {"AskName", "AskDay", "AskFullDay"} \subseteq prompted

(***************************************************************************)
(* C5.  Both machines, every slot: on ASR_NOINPUT and LISTEN_COMPLETE in   *)
(* Listen the machine enters that slot's NoInput with lastResult null and  *)
(* the three slots unchanged, and SPEAK_COMPLETE then leads to that slot's *)
(* Prompt.                                                                 *)
(***************************************************************************)
C5_NoInputReprompts ==
    [][/\ ((\E t \in Dm4Slots : HeardNothing(t)) /\ LISTEN_COMPLETE) =>
            /\ ~fault'
            /\ top' = top
            /\ sub' = "NoInput"
            /\ lastResult' = NullResult
            /\ UNCHANGED <<nameResult, dayResult, timeResult>>
       /\ (sub = "NoInput" /\ SPEAK_COMPLETE) =>
            /\ top' = top
            /\ sub' \in PromptStates
            /\ UNCHANGED <<nameResult, dayResult, timeResult>>]_vars

(***************************************************************************)
(* C6.  Both machines: no sequence of events of the service and the button *)
(* makes a guard or an action throw.                                       *)
(***************************************************************************)
C6_NoFatalFault == ~fault

(***************************************************************************)
(* C7.  dm.ts, the happy path step by step: CLICK at WaitToStart starts    *)
(* Greeting and its SPEAK_COMPLETE leads to the person prompt; every       *)
(* prompt's SPEAK_COMPLETE opens Listen; "vlad" at AskName stores          *)
(* "Vladislav Maraev" and leads to AskDay; "monday" at AskDay leads to     *)
(* AskFullDay; "yes" at AskFullDay stores "whole day" and leads to         *)
(* AskConfirm; "yes" at AskConfirm leads to Done.                          *)
(***************************************************************************)
C7_HappyPath ==
    [][variant = "dm" =>
        /\ (top = "WaitToStart" /\ CLICK) => top' = "Greeting"
        /\ (top = "Greeting" /\ SPEAK_COMPLETE) =>
                (top' = "AskName" /\ sub' = "PromptForName")
        /\ (sub \in PromptStates /\ SPEAK_COMPLETE) => (top' = top /\ sub' = "Listen")
        /\ (Heard("AskName", "vlad") /\ LISTEN_COMPLETE) =>
                (top' = "AskName" /\ sub' = "ValidInput" /\ nameResult' = "Vladislav Maraev")
        /\ (top = "AskName" /\ sub = "ValidInput" /\ nameResult = "Vladislav Maraev"
                /\ SPEAK_COMPLETE) => top' = "AskDay"
        /\ (Heard("AskDay", "monday") /\ LISTEN_COMPLETE) =>
                (top' = "AskDay" /\ sub' = "ValidInput")
        /\ (top = "AskDay" /\ sub = "ValidInput" /\ SPEAK_COMPLETE) => top' = "AskFullDay"
        /\ (Heard("AskFullDay", "yes") /\ LISTEN_COMPLETE) =>
                (top' = "AskFullDay" /\ sub' = "WholeDay" /\ timeResult' = "whole day")
        /\ (top = "AskFullDay" /\ sub = "WholeDay" /\ SPEAK_COMPLETE) => top' = "AskConfirm"
        /\ (Heard("AskConfirm", "yes") /\ LISTEN_COMPLETE) => top' = "Done"]_vars

\* Done reached with the values of the happy path
C7_Witness ==
    /\ variant = "dm"
    /\ top = "Done"
    /\ Passed("AskConfirm", "ValidateInput")
    /\ nameResult = "Vladislav Maraev"
    /\ dayResult = "monday"
    /\ timeResult = "whole day"

(***************************************************************************)
(* C8.  Both machines: an utterance heard at AskName that names no person  *)
(* of the lexicon leads to an apology state of AskName (InvalidInput, or   *)
(* ValidInput holding "Unknown") without setting nameResult to a person,   *)
(* and the apology's SPEAK_COMPLETE leads to PromptForName, not to AskDay. *)
(***************************************************************************)
C8_UnresolvedNameReprompts ==
    [][/\ ((\E u \in Utterances : Heard("AskName", u) /\ ~Truthy(getPerson(u)))
                /\ LISTEN_COMPLETE) =>
            /\ ~fault'
            /\ top' = "AskName"
            /\ sub' \in {"InvalidInput", "ValidInput"}
            /\ sub' = "ValidInput" => nameResult' = "Unknown"
            /\ nameResult' \in PersonNames => nameResult' = nameResult
       /\ (top = "AskName" /\ SPEAK_COMPLETE
                /\ (sub = "InvalidInput" \/ (sub = "ValidInput" /\ nameResult = "Unknown"))) =>
            (top' = "AskName" /\ sub' = "PromptForName")]_vars

\* "xyz" was heard at AskName and the apology is being spoken
C8_Witness ==
    /\ top = "AskName"
    /\ sub = "InvalidInput"
    /\ Passed("AskName", "ValidateInput")
    /\ HasUtt0(lastResult)
    /\ Utt0(lastResult) = "xyz"

(***************************************************************************)
(* C9.  Both machines: an utterance heard at AskDay enters InvalidDay when *)
(* its lower-cased form is no weekday name, ValidInput when it is a        *)
(* weekday name and a lexicon key, InvalidInput when it is a weekday name  *)
(* and no lexicon key.                                                     *)
(***************************************************************************)
C9_DayValidationBranches ==
    [][\A u \in Utterances :
        (Heard("AskDay", u) /\ LISTEN_COMPLETE) =>
            /\ top' = "AskDay"
            /\ sub' = IF toLowerCase(u) \notin validDay THEN "InvalidDay"
                      ELSE IF toLowerCase(u) \in DOMAIN grammar THEN "ValidInput"
                      ELSE "InvalidInput"]_vars

\* a weekday that is no lexicon key was heard at AskDay
C9_Witness ==
    /\ top = "AskDay"
    /\ sub = "InvalidInput"
    /\ Passed("AskDay", "ValidateInput")
    /\ HasUtt0(lastResult)
    /\ Utt0(lastResult) = "wednesday"

(***************************************************************************)
(* C10.  dm4.ts: when AskWhat.ValidInput holds a CreateMeeting result with *)
(* a personName entity, its SPEAK_COMPLETE enters AskName.CheckForName and *)
(* then AskName.ValidateInput, and enters neither PromptForName nor        *)
(* Listen.                                                                 *)
(***************************************************************************)
HasPersonEntity ==
    \E i \in DOMAIN nluEntities.items : nluEntities.items[i].category = "personName"

Macrostep == path' # path /\ path' # <<>>

\* the top-level states the macrostep goes through, from the one it starts in
Tops == <<top>> \o [i \in DOMAIN path' |-> path'[i][1]]

(***************************************************************************)
(* C11.  dm4.ts: when AskName, AskDay or AskTime is entered with its slot  *)
(* already populated, the state entered right after the slot's Check state *)
(* is that slot's own ValidateInput.                                       *)
(***************************************************************************)
C11_PrefilledSlotIsValidated ==
    [][(variant = "dm4" /\ Macrostep) =>
        \A i \in DOMAIN path' :
            /\ (path'[i] = <<"AskName", "CheckForName">> /\ nameResult # "") =>
                    (i < Len(path') /\ path'[i + 1] = <<"AskName", "ValidateInput">>)
            /\ (path'[i] = <<"AskDay", "CheckForDay">> /\ dayResult # "") =>
                    (i < Len(path') /\ path'[i + 1] = <<"AskDay", "ValidateInput">>)
            /\ (path'[i] = <<"AskTime", "CheckForTime">> /\ timeResult # "") =>
                    (i < Len(path') /\ path'[i + 1] = <<"AskTime", "ValidateInput">>)]_vars

\* the classifier's answer is waiting in AskWhat.Listen
HeardIntent(intent) ==
    /\ variant = "dm4"
    /\ top = "AskWhat"
    /\ sub = "Listen"
    /\ listen = "resolved"
    /\ HasResult(lastResult)
    /\ nluIntent = intent

(***************************************************************************)
(* C12.  dm4.ts: for every intent other than CreateMeeting and WhoIs,      *)
(* LISTEN_COMPLETE at AskWhat enters AskWhat.InvalidInput, whose           *)
(* SPEAK_COMPLETE leads to PromptForWhat.                                  *)
(***************************************************************************)
C12_UnroutableIntentReprompts ==
    [][/\ ((\E intent \in Intents \ {"CreateMeeting", "WhoIs"} : HeardIntent(intent))
                /\ LISTEN_COMPLETE) =>
            (top' = "AskWhat" /\ sub' = "InvalidInput")
       /\ (variant = "dm4" /\ top = "AskWhat" /\ sub = "InvalidInput" /\ SPEAK_COMPLETE) =>
            (top' = "AskWhat" /\ sub' = "PromptForWhat")]_vars

(***************************************************************************)
(* C13.  dm4.ts: when AskName is entered from AskWhat after a              *)
(* CreateMeeting utterance, each slot holds the text of that utterance's   *)
(* last entity of its category, and is empty when the utterance has none.  *)
(***************************************************************************)
C13_PrefillFromSameUtterance ==
    [][(/\ variant = "dm4"
        /\ top = "AskWhat"
        /\ sub = "ValidInput"
        /\ nluIntent = "CreateMeeting"
        /\ SPEAK_COMPLETE
        /\ Macrostep) =>
            /\ nameResult = LastEntity(nluEntities.items, "personName", "")
            /\ dayResult = LastEntity(nluEntities.items, "apptDay", "")
            /\ timeResult = LastEntity(nluEntities.items, "apptTime", "")]_vars

(***************************************************************************)
(* C14.  dm4.ts: LISTEN_COMPLETE on a WhoIs utterance enters               *)
(* AskWhat.ValidInput, whose SPEAK_COMPLETE enters WhoIs, whose            *)
(* SPEAK_COMPLETE enters Done with the context reset; from the utterance   *)
(* to Done the top-level state is AskWhat, WhoIs or Done only.             *)
(***************************************************************************)
C14_WhoIsFlow ==
    [][/\ (HeardIntent("WhoIs") /\ LISTEN_COMPLETE) =>
            (top' = "AskWhat" /\ sub' = "ValidInput" /\ nluIntent' = "WhoIs")
       /\ (variant = "dm4" /\ top = "AskWhat" /\ sub = "ValidInput" /\ nluIntent = "WhoIs") =>
            /\ top' \in {"AskWhat", "WhoIs"}
            /\ top' = "AskWhat" => UNCHANGED <<sub, nluIntent>>
            /\ SPEAK_COMPLETE => (top' = "WhoIs" /\ path' = <<<<"WhoIs", "">>>>)
       /\ (variant = "dm4" /\ top = "WhoIs") =>
            /\ top' \in {"WhoIs", "Done"}
            /\ SPEAK_COMPLETE =>
                /\ top' = "Done"
                /\ path' = <<<<"Done", "">>>>
                /\ lastResult' = NullResult
                /\ nameResult' = "" /\ dayResult' = "" /\ timeResult' = ""
                /\ nluIntent' = ""
                /\ nluEntities' = NullEntities]_vars

\* Done entered from WhoIs
C14_Witness ==
    /\ variant = "dm4"
    /\ top = "Done"
    /\ path = <<<<"Done", "">>>>
    /\ nluIntent = ""

(***************************************************************************)
(* C15.  Both machines: an utterance heard at AskFullDay or AskConfirm     *)
(* that is neither an affirmation nor a negation enters that state's       *)
(* InvalidInput without changing timeResult, and InvalidInput's            *)
(* SPEAK_COMPLETE leads to the same PromptForYesNo.                        *)
(***************************************************************************)
C15_NeitherYesNorNoIsInvalid ==
    [][\A t \in {"AskFullDay", "AskConfirm"} :
        /\ ((\E u \in Utterances : /\ Heard(t, u)
                                   /\ ~isYes(toLowerCase(u))
                                   /\ ~isNo(toLowerCase(u)))
                /\ LISTEN_COMPLETE) =>
            /\ ~fault'
            /\ path' = <<<<t, "ValidateInput">>, <<t, "InvalidInput">>>>
            /\ top' = t
            /\ sub' = "InvalidInput"
            /\ UNCHANGED <<nameResult, dayResult, timeResult>>
        /\ (top = t /\ sub = "InvalidInput" /\ SPEAK_COMPLETE) =>
            /\ top' = t
            /\ sub' = "PromptForYesNo"
            /\ UNCHANGED <<nameResult, dayResult, timeResult>>]_vars

\* "xyz" was heard at AskConfirm and the apology is being spoken
C15_Witness ==
    /\ top = "AskConfirm"
    /\ sub = "InvalidInput"
    /\ path = <<<<"AskConfirm", "ValidateInput">>, <<"AskConfirm", "InvalidInput">>>>
    /\ HasUtt0(lastResult)
    /\ Utt0(lastResult) = "xyz"

\* the top-level transitions of the specification's fixed sequence
FixedEdges ==
    {<<"Prepare", "WaitToStart">>, <<"WaitToStart", "Greeting">>,
     <<"AskName", "AskDay">>, <<"AskDay", "AskFullDay">>,
     <<"AskFullDay", "AskTime">>, <<"AskFullDay", "AskConfirm">>,
     <<"AskTime", "AskConfirm">>, <<"AskConfirm", "AskName">>}
    \cup (IF variant = "dm"
          THEN {<<"Greeting", "AskName">>, <<"AskConfirm", "Done">>, <<"Done", "Greeting">>}
          ELSE {<<"Greeting", "AskWhat">>, <<"AskWhat", "AskName">>, <<"AskWhat", "WhoIs">>,
                <<"WhoIs", "Done">>, <<"AskConfirm", "DoneMeeting">>,
                <<"Done", "Greeting">>, <<"DoneMeeting", "Greeting">>})

C17_AskTimeOnlyAfterNo ==
    [][(Macrostep /\ top # "AskTime" /\ \E i \in DOMAIN path' : path'[i][1] = "AskTime") =>
        /\ top = "AskFullDay"
        /\ sub = "Listen"
        /\ HasUtt0(lastResult)
        /\ isNo(toLowerCase(Utt0(lastResult)))
        /\ path'[1] = <<"AskFullDay", "ValidateInput">>
        /\ path'[2][1] = "AskTime"]_vars

\* the commands the service has not yet answered
Outstanding == speaks + (IF listen = "none" THEN 0 ELSE 1)

(***************************************************************************)
(* C18.  Both machines: at most one SPEAK or LISTEN command is outstanding *)
(* at any time.                                                            *)
(***************************************************************************)
C18_TurnsNeverOverlap == Outstanding <= 1

(***************************************************************************)
(* C19.  Both machines: a CLICK in WaitToStart, Done or DoneMeeting enters *)
(* Greeting; a CLICK in any other state changes neither the control state  *)
(* nor the context.                                                        *)
(***************************************************************************)
C19_ClickOnlyWhenIdle ==
    [][CLICK =>
        IF top \in {"WaitToStart"} \cup TerminalStates
        THEN top' = "Greeting" /\ sub' = "" /\ path' = <<<<"Greeting", "">>>>
        ELSE UNCHANGED <<top, sub, ctxvars, fault>>]_vars

\* dm.ts: Greeting entered by a CLICK in Done, the booking still in the context
C19_Witness ==
    /\ variant = "dm"
    /\ top = "Greeting"
    /\ path = <<<<"Greeting", "">>>>
    /\ dayResult # Null

\* the keys of the lexicon that name a person
PersonKeys == {k \in DOMAIN grammar : "person" \in DOMAIN grammar[k]}

(***************************************************************************)
(* C20.  The lexicon resolver, on every utterance the recogniser delivers: *)
(* isInGrammar is true exactly when the lower-cased utterance is one of    *)
(* the nine lexicon keys, getPerson is the lexicon's person for vlad, aya  *)
(* and victoria and undefined otherwise, and both results are the same for *)
(* every re-casing of the utterance.                                       *)
(***************************************************************************)
C20_ResolverExactMatch ==
    \A u \in Utterances :
        (HasUtt0(lastResult) /\ Utt0(lastResult) = u) =>
            /\ Cardinality(DOMAIN grammar) = 9
            /\ PersonKeys = {"vlad", "aya", "victoria"}
            /\ isInGrammar(u) <=> toLowerCase(u) \in DOMAIN grammar
            /\ getPerson(u) = IF toLowerCase(u) \in PersonKeys
                              THEN grammar[toLowerCase(u)].person
                              ELSE Undefined
            /\ \A v \in Utterances :
                    toLowerCase(v) = toLowerCase(u) =>
                        /\ isInGrammar(v) = isInGrammar(u)
                        /\ getPerson(v) = getPerson(u)

\* the lexicon's value of the given kind for the utterance, if it has one
Canonical(u, kind) ==
    LET k == toLowerCase(u)
    IN  IF k \in DOMAIN grammar /\ kind \in DOMAIN grammar[k] THEN grammar[k][kind]
        ELSE Undefined

(***************************************************************************)
(* C21.  Both machines: when an utterance heard at AskName, AskDay or      *)
(* AskTime is accepted (ValidInput, for a name other than "Unknown"), the  *)
(* slot holds the lexicon's person, day or time for that utterance.        *)
(***************************************************************************)
C21_CanonicalValueCommitted ==
    [][\A u \in Utterances :
        /\ (Heard("AskName", u) /\ LISTEN_COMPLETE /\ sub' = "ValidInput"
                /\ nameResult' # "Unknown") => nameResult' = Canonical(u, "person")
        /\ (Heard("AskDay", u) /\ LISTEN_COMPLETE /\ sub' = "ValidInput") =>
                dayResult' = Canonical(u, "day")
        /\ (Heard("AskTime", u) /\ LISTEN_COMPLETE /\ sub' = "ValidInput") =>
                timeResult' = Canonical(u, "time")]_vars

(***************************************************************************)
(* C22.  Both machines: ASRTTS_READY in Prepare enters WaitToStart and     *)
(* leaves the context as it is; ASRTTS_READY in any other state changes    *)
(* neither the control state nor the context.                              *)
(***************************************************************************)
C22_ReadyOnlyInPrepare ==
    [][ASRTTS_READY =>
        /\ UNCHANGED <<ctxvars, fault, speaks, listen>>
        /\ IF top = "Prepare"
           THEN top' = "WaitToStart" /\ sub' = "" /\ path' = <<<<"WaitToStart", "">>>>
           ELSE UNCHANGED <<top, sub>>]_vars

\* WaitToStart entered from Prepare
C22_Witness ==
    /\ top = "WaitToStart"
    /\ path = <<<<"WaitToStart", "">>>>
    /\ speaks = 0
    /\ listen = "none"

\* the keys of the lexicon whose entry is a time of day
TimeKeys == {k \in DOMAIN grammar : "time" \in DOMAIN grammar[k]}

(***************************************************************************)
(* C23.  Both machines: in AskConfirm timeResult is "whole day" or, up to  *)
(* letter case, a lexicon key whose entry is a time of day.                *)
(***************************************************************************)
C23_TimeResultValid ==
    top = "AskConfirm" => (timeResult = "whole day" \/ toLowerCase(timeResult) \in TimeKeys)

\* the weekdays that are lexicon keys
BookableDays == validDay \cap DOMAIN grammar

(***************************************************************************)
(* C24.  Both machines: in AskFullDay, AskTime and AskConfirm dayResult    *)
(* is, up to letter case, a weekday name that is a lexicon key.            *)
(***************************************************************************)
C24_DayResultBookable ==
    top \in {"AskFullDay", "AskTime", "AskConfirm"} => toLowerCase(dayResult) \in BookableDays

PrefilledOutcome(t, check, s) ==
    \E i \in DOMAIN path' :
        /\ i + 2 <= Len(path')
        /\ path'[i] = <<t, check>>
        /\ path'[i + 1] = <<t, "ValidateInput">>
        /\ path'[i + 2] = <<t, s>>

PrefilledValidated(t, check) ==
    \E i \in DOMAIN path' :
        /\ i < Len(path')
        /\ path'[i] = <<t, check>>
        /\ path'[i + 1] = <<t, "ValidateInput">>

(***************************************************************************)
(* C26.  Both machines: the outcome of a slot's validation is decided by   *)
(* the value of the current turn alone: for an utterance heard in the      *)
(* slot's Listen by that utterance, for a pre-filled slot of dm4.ts by the *)
(* pre-filled text, whatever lastResult still holds from an earlier turn.  *)
(***************************************************************************)
C26_NoStaleResultInValidation ==
    [][Macrostep =>
        /\ \A u \in Utterances :
            /\ (Heard("AskName", u) /\ LISTEN_COMPLETE) =>
                    ((sub' = "ValidInput" /\ nameResult' # "Unknown")
                        <=> Truthy(getPerson(u)))
            /\ (Heard("AskTime", u) /\ LISTEN_COMPLETE) =>
                    (sub' = "ValidInput" <=> isInGrammar(u))
        /\ PrefilledValidated("AskName", "CheckForName") =>
            /\ ~fault'
            /\ PrefilledOutcome("AskName", "CheckForName", "ValidInput")
                    <=> Truthy(getPerson(nameResult))
        /\ PrefilledValidated("AskTime", "CheckForTime") =>
            /\ ~fault'
            /\ PrefilledOutcome("AskTime", "CheckForTime", "ValidInput")
                    <=> isInGrammar(timeResult)]_vars

C28_ValidateInputTransient ==
    [][/\ sub # "ValidateInput"
       /\ (Macrostep /\ \E i \in DOMAIN path' : path'[i][2] = "ValidateInput") =>
            /\ ~fault'
            /\ \A i \in DOMAIN path' :
                    path'[i][2] = "ValidateInput" =>
                        (i < Len(path') /\ path'[i + 1] # path'[i])
            /\ sub' # "ValidateInput"
            /\ listen' = "none"
            /\ speaks' = speaks + (IF LISTEN_COMPLETE THEN 1 ELSE 0)]_vars

\* the slots of the booking flow, and the apology states of a slot
Slots == {"AskName", "AskDay", "AskFullDay", "AskTime", "AskConfirm"}

ApologyStates == {"InvalidInput", "InvalidDay", "InvalidYesNo", "InvalidTime"}

SlotPrompt(t) ==
    CASE t = "AskName" -> "PromptForName"
      [] t = "AskDay" -> "PromptForDay"
      [] t = "AskTime" -> "PromptForTime"
      [] OTHER -> "PromptForYesNo"

\* the slots other than the one t fills keep their values in this step
OtherSlotsUnchanged(t) ==
    /\ t # "AskName" => nameResult' = nameResult
    /\ t # "AskDay" => dayResult' = dayResult
    /\ t \notin {"AskFullDay", "AskTime"} => timeResult' = timeResult

(***************************************************************************)
(* C29.  Both machines: when the utterance heard at a slot is rejected,    *)
(* LISTEN_COMPLETE enters one of the slot's apology states, sends one      *)
(* SPEAK, stays in the slot and leaves the other slots' values alone; the  *)
(* apology's SPEAK_COMPLETE enters the same slot's prompt state and        *)
(* changes no slot value.                                                  *)
(***************************************************************************)
C29_RejectedAnswerReprompts ==
    [][\A t \in Slots :
        /\ ((\E u \in Utterances : Heard(t, u))
                /\ LISTEN_COMPLETE
                /\ Macrostep
                /\ path'[Len(path')][1] = t
                /\ path'[Len(path')][2] \in ApologyStates) =>
            /\ ~fault'
            /\ path' = <<<<t, "ValidateInput">>, <<t, sub'>>>>
            /\ top' = t
            /\ speaks' = speaks + 1
            /\ listen' = "none"
            /\ OtherSlotsUnchanged(t)
        /\ (top = t /\ sub \in ApologyStates /\ SPEAK_COMPLETE) =>
            /\ ~fault'
            /\ path' = <<<<t, SlotPrompt(t)>>>>
            /\ top' = t
            /\ sub' = SlotPrompt(t)
            /\ speaks' = speaks
            /\ UNCHANGED <<nameResult, dayResult, timeResult>>]_vars

\* "wednesday" was heard at AskDay and the apology is being spoken, with
\* the name of the earlier turn still in place
C29_Witness ==
    /\ top = "AskDay"
    /\ sub = "InvalidInput"
    /\ path = <<<<"AskDay", "ValidateInput">>, <<"AskDay", "InvalidInput">>>>
    /\ HasUtt0(lastResult)
    /\ Utt0(lastResult) = "wednesday"
    /\ nameResult = "Vladislav Maraev"
    /\ dayResult = ""

\* the results whose first hypothesis has the utterance of r's, with any
\* confidence and with or without a second hypothesis
SameFirstUtterance(r) ==
    {HypsResult(<<[utterance |-> r.hyps[1].utterance, confidence |-> cf]>> \o rest) :
        cf \in Confidences,
        rest \in {<<>>} \cup {<<h>> : h \in {x \in Hypotheses : x.confidence = 90}}}

\* what a macrostep decides: the states entered, the state reached, the
\* slot values, the commands sent and whether it faulted
Outcome(r) ==
    <<r.path, r.top, r.sub, r.nameResult, r.dayResult, r.timeResult, r.out, r.fault>>

(***************************************************************************)
(* C30.  Both machines: with a recognition result in context.lastResult,   *)
(* LISTEN_COMPLETE (and SPEAK_COMPLETE, which in dm4.ts validates a        *)
(* prefilled slot) enters the same states, reaches the same state and      *)
(* leaves the same slot values for every result whose first hypothesis     *)
(* has the same utterance, whatever its confidence and whatever second     *)
(* hypothesis follows it.                                                  *)
(***************************************************************************)
C30_OnlyFirstUtteranceDecides ==
    (~fault /\ lastResult.kind = "hyps" /\ Len(lastResult.hyps) > 0) =>
        \A r \in SameFirstUtterance(lastResult) :
            LET other == [Cur EXCEPT !.lastResult = r]
            IN  /\ listen = "resolved" =>
                    IF variant = "dm"
                    THEN Outcome(Dm_LISTEN_COMPLETE(other)) = Outcome(Dm_LISTEN_COMPLETE(Cur))
                    ELSE Outcome(Dm4_LISTEN_COMPLETE(other)) = Outcome(Dm4_LISTEN_COMPLETE(Cur))
                /\ speaks > 0 =>
                    IF variant = "dm"
                    THEN Outcome(Dm_SPEAK_COMPLETE(other)) = Outcome(Dm_SPEAK_COMPLETE(Cur))
                    ELSE Outcome(Dm4_SPEAK_COMPLETE(other)) = Outcome(Dm4_SPEAK_COMPLETE(Cur))

\* a doubtful "monday" followed by a confident "xyz" was heard at AskDay and
\* accepted as the day
C30_Witness ==
    /\ top = "AskDay"
    /\ sub = "ValidInput"
    /\ path = <<<<"AskDay", "ValidateInput">>, <<"AskDay", "ValidInput">>>>
    /\ lastResult = HypsResult(<<[utterance |-> "monday", confidence |-> 40],
                                 [utterance |-> "xyz", confidence |-> 90]>>)
    /\ dayResult = "monday"

\* the states of a slot in which an accepted value is acknowledged
AcceptStates == {"ValidInput", "WholeDay"}

(***************************************************************************)
(* C31.  Both machines, every slot: a turn without input enters the slot's *)
(* NoInput; from NoInput and from every apology state SPEAK_COMPLETE       *)
(* enters the slot's prompt state again with the context as it was, so     *)
(* nothing counts the attempts; and a step leaves the slot for another     *)
(* top-level state only from a state that acknowledges an accepted value,  *)
(* or in the LISTEN_COMPLETE step of a yes or no answer.  A state that     *)
(* acknowledges a value is entered only from ValidateInput or, in dm4.ts,  *)
(* from a check of a prefilled slot.                                       *)
(***************************************************************************)
C31_NoRetryLimit ==
    [][\A t \in Slots :
        /\ (HeardNothing(t) /\ LISTEN_COMPLETE) =>
            /\ ~fault'
            /\ top' = t
            /\ sub' = "NoInput"
        /\ (top = t /\ sub \in {"NoInput"} \cup ApologyStates /\ SPEAK_COMPLETE) =>
            /\ ~fault'
            /\ top' = t
            /\ sub' = SlotPrompt(t)
            /\ UNCHANGED ctxvars
        /\ (top = t /\ top' # t) =>
            \/ sub \in AcceptStates /\ SPEAK_COMPLETE
            \/ /\ t \in {"AskFullDay", "AskConfirm"}
               /\ LISTEN_COMPLETE
               /\ \E u \in Utterances :
                    Heard(t, u) /\ (isYes(toLowerCase(u)) \/ isNo(toLowerCase(u)))
        /\ (Macrostep /\ ~fault' /\ top' = t /\ sub' \in AcceptStates) =>
            /\ Len(path') > 1
            /\ path'[Len(path') - 1][1] = t
            /\ \/ path'[Len(path') - 1][2] = "ValidateInput"
               \/ variant = "dm4" /\ path'[Len(path') - 1][2] \in
                        {"CheckForName", "CheckForDay", "CheckForTime"}]_vars

\* the answers slot t accepts
Accepts(t, u) ==
    CASE t = "AskName" -> isInGrammar(u) /\ Truthy(getPerson(u))
      [] t = "AskDay" -> validateDay(u) /\ isInGrammar(u)
      [] t = "AskFullDay" -> isYes(toLowerCase(u)) \/ isNo(toLowerCase(u))
      [] t = "AskTime" -> isInGrammar(u)
      [] t = "AskConfirm" -> isYes(toLowerCase(u))
      [] OTHER -> FALSE

\* the user gives slot t an answer it accepts
GoodAnswer(t) ==
    /\ RECOGNISED
    /\ top = t
    /\ sub = "Listen"
    /\ HasUtt0(lastResult')
    /\ Accepts(t, Utt0(lastResult'))

\* the user of dm4.ts asks for a meeting
AsksForMeeting ==
    /\ RECOGNISED
    /\ variant = "dm4"
    /\ top = "AskWhat"
    /\ sub = "Listen"
    /\ nluIntent' = "CreateMeeting"

\* the user gives the state that listens an answer it accepts
Cooperates ==
    \/ AsksForMeeting
    \/ \E t \in Slots \ {"AskConfirm"} : GoodAnswer(t)

\* the service answers every command, the user starts the session, keeps
\* coming back to an answer that is accepted and, at AskConfirm, to yes
FairSpec ==
    /\ Spec
    /\ WF_vars(ASRTTS_READY)
    /\ WF_vars(CLICK)
    /\ WF_vars(SPEAK_COMPLETE)
    /\ WF_vars(RECOGNISED \/ ASR_NOINPUT)
    /\ WF_vars(LISTEN_COMPLETE)
    /\ SF_vars(Cooperates)
    /\ SF_vars(GoodAnswer("AskConfirm"))

\* the state in which the booking is complete
BookingComplete == top = (IF variant = "dm" THEN "Done" ELSE "DoneMeeting")

(***************************************************************************)
(* C32.  Both machines: when the service answers every command and the     *)
(* user starts the session and keeps coming back to an accepted answer at  *)
(* every slot, and to yes at AskConfirm, the booking is eventually         *)
(* complete.                                                               *)
(***************************************************************************)
C32_BookingEventuallyCompletes == <>BookingComplete

\* the states that wait for the button or for the service to become ready
IdleStates == {"Prepare", "WaitToStart", "Done", "DoneMeeting"}

\* the current state has a transition for the event
Handles(r) == r.handled /\ ~r.fault

\* an answer of the service is due and the current state handles it
AnswerDueAndHandled ==
    \/ /\ speaks > 0
       /\ Handles(IF variant = "dm" THEN Dm_SPEAK_COMPLETE(Cur) ELSE Dm4_SPEAK_COMPLETE(Cur))
    \/ /\ listen \in {"open", "openNLU"}
       /\ Handles(IF variant = "dm" THEN Dm_ASR_NOINPUT(Cur) ELSE Dm4_ASR_NOINPUT(Cur))
       /\ \A event \in (IF listen = "openNLU" THEN NluEvents ELSE AsrEvents) :
            Handles(IF variant = "dm" THEN Dm_RECOGNISED(Cur, event)
                    ELSE Dm4_RECOGNISED(Cur, event))
    \/ /\ listen = "resolved"
       /\ Handles(IF variant = "dm" THEN Dm_LISTEN_COMPLETE(Cur) ELSE Dm4_LISTEN_COMPLETE(Cur))

(***************************************************************************)
(* C33.  Both machines: in every reachable state other than Prepare,       *)
(* WaitToStart, Done and DoneMeeting the actor is running, a SPEAK or a    *)
(* LISTEN is outstanding and the current state has a transition for the    *)
(* event that answers it.                                                  *)
(***************************************************************************)
C33_NeverStuck == top \notin IdleStates => (~fault /\ AnswerDueAndHandled)

\* a recognition event that no LISTEN asked for, delivered while the machine
\* is not in a Listen state
RECOGNISED_Elsewhere ==
    /\ ~fault
    /\ sub # "Listen"
    /\ \E event \in AsrEvents :
          Commit(IF variant = "dm" THEN Dm_RECOGNISED(Cur, event)
                 ELSE Dm4_RECOGNISED(Cur, event),
                 speaks, listen)
    /\ UNCHANGED variant

ASR_NOINPUT_Elsewhere ==
    /\ ~fault
    /\ sub # "Listen"
    /\ Commit(IF variant = "dm" THEN Dm_ASR_NOINPUT(Cur) ELSE Dm4_ASR_NOINPUT(Cur),
              speaks, listen)
    /\ UNCHANGED variant

LISTEN_COMPLETE_Elsewhere ==
    /\ ~fault
    /\ sub # "Listen"
    /\ Commit(IF variant = "dm" THEN Dm_LISTEN_COMPLETE(Cur) ELSE Dm4_LISTEN_COMPLETE(Cur),
              speaks, listen)
    /\ UNCHANGED variant

\* the actor with a service that may also send recognition events unasked
StrayNext ==
    \/ Next
    \/ RECOGNISED_Elsewhere
    \/ ASR_NOINPUT_Elsewhere
    \/ LISTEN_COMPLETE_Elsewhere

StraySpec == Init /\ [][StrayNext]_vars

(***************************************************************************)
(* C34.  Both machines: a RECOGNISED, ASR_NOINPUT or LISTEN_COMPLETE event *)
(* delivered while the machine is not in a Listen state changes neither    *)
(* the state nor the context, and a step enters a slot's ValidateInput     *)
(* only from that slot's Listen or, in dm4.ts, right after the check of a  *)
(* prefilled slot.                                                         *)
(***************************************************************************)
C34_RecognitionOnlyInListen ==
    [][/\ (RECOGNISED_Elsewhere \/ ASR_NOINPUT_Elsewhere \/ LISTEN_COMPLETE_Elsewhere) =>
            UNCHANGED <<top, sub, ctxvars, fault>>
       /\ \A i \in DOMAIN path' :
            (Macrostep /\ path'[i][2] = "ValidateInput") =>
                IF i = 1
                THEN top = path'[i][1] /\ sub = "Listen"
                ELSE /\ variant = "dm4"
                     /\ path'[i - 1][2] \in {"CheckForName", "CheckForDay", "CheckForTime"}]_vars

\* states that no transition of either machine targets
DeadStates ==
    {<<"AskFullDay", "InvalidYesNo">>, <<"AskConfirm", "InvalidYesNo">>,
     <<"AskConfirm", "WholeDay">>, <<"AskTime", "InvalidTime">>}

(***************************************************************************)
(* C35.  Both machines: AskFullDay.InvalidYesNo, AskConfirm.InvalidYesNo,  *)
(* AskConfirm.WholeDay and AskTime.InvalidTime are never entered, and      *)
(* whenever the yes/no chain of AskFullDay or AskConfirm gets as far as    *)
(* its third guard, the guard holds and InvalidInput is entered.           *)
(***************************************************************************)
C35_DeadStatesNeverEntered ==
    /\ <<top, sub>> \notin DeadStates
    /\ \A i \in DOMAIN path : path[i] \notin DeadStates
    /\ \A t \in {"AskFullDay", "AskConfirm"} :
        (/\ ~fault
         /\ top = t
         /\ listen = "resolved"
         /\ HasUtt0(lastResult)
         /\ ~isNo(toLowerCase(Utt0(lastResult)))
         /\ ~isYes(toLowerCase(Utt0(lastResult)))) =>
            LET r == IF variant = "dm" THEN Dm_LISTEN_COMPLETE(Cur)
                     ELSE Dm4_LISTEN_COMPLETE(Cur)
            IN  /\ ~isNo(toLowerCase(Utt0(lastResult))) \/ ~isYes(toLowerCase(Utt0(lastResult)))
                /\ ~r.fault
                /\ r.path = <<<<t, "ValidateInput">>, <<t, "InvalidInput">>>>

\* "xyz" was heard at AskFullDay: the third guard sent it to InvalidInput
C35_Witness ==
    /\ top = "AskFullDay"
    /\ sub = "InvalidInput"
    /\ path = <<<<"AskFullDay", "ValidateInput">>, <<"AskFullDay", "InvalidInput">>>>
    /\ HasUtt0(lastResult)
    /\ Utt0(lastResult) = "xyz"

\* the branch a yes/no chain would take with the yes-branch tested first
BranchYesFirst(u) ==
    IF isYes(toLowerCase(u)) THEN "yes"
    ELSE IF isNo(toLowerCase(u)) THEN "no"
    ELSE "invalid"

\* the branch the macrostep r took out of the ValidateInput of slot t
BranchTaken(t, r) ==
    IF r.fault \/ Len(r.path) < 2 \/ r.path[1] # <<t, "ValidateInput">> THEN "none"
    ELSE IF r.path[2] = <<t, "InvalidInput">> THEN "invalid"
    ELSE IF r.path[2][1] \in {"AskTime", "AskName"} THEN "no"
    ELSE IF r.path[2] = <<"AskFullDay", "WholeDay">> \/ r.path[2][1] \in TerminalStates
         THEN "yes"
    ELSE "none"

(***************************************************************************)
(* C36.  yesPhrases and noPhrases have no phrase in common; no utterance   *)
(* is both isYes and isNo; and for every answer that waits at AskFullDay   *)
(* or AskConfirm, the branch ValidateInput takes, testing no first, is the *)
(* branch it would take testing yes first.                                 *)
(***************************************************************************)
C36_YesAndNoDisjoint ==
    /\ yesPhrases \cap noPhrases = {}
    /\ \A u \in Utterances \cup yesPhrases \cup noPhrases : ~(isYes(u) /\ isNo(u))
    /\ \A t \in {"AskFullDay", "AskConfirm"} :
        (~fault /\ top = t /\ listen = "resolved" /\ HasUtt0(lastResult)) =>
            BranchTaken(t, IF variant = "dm" THEN Dm_LISTEN_COMPLETE(Cur)
                           ELSE Dm4_LISTEN_COMPLETE(Cur))
                = BranchYesFirst(Utt0(lastResult))

\* "sure" was heard at AskFullDay and taken as an affirmation
C36_Witness ==
    /\ top = "AskFullDay"
    /\ sub = "WholeDay"
    /\ path = <<<<"AskFullDay", "ValidateInput">>, <<"AskFullDay", "WholeDay">>>>
    /\ HasUtt0(lastResult)
    /\ Utt0(lastResult) = "sure"
    /\ timeResult = "whole day"

====
